---- MODULE Spec2Model ----
(***************************************************************************)
(* Session broadcast engine of healing_api.py: the registry                *)
(* active_sessions, the request handlers that start, poll and stop         *)
(* sessions, the six worker threads and their deferred-removal timers.     *)
(*                                                                         *)
(* Time: `now` is the value time.time() returns, in whole seconds.  A      *)
(* string is a sequence of tokens, a token being a word or the blank " ".  *)
(* A frequency is an integer number of hundredths of a hertz.              *)
(***************************************************************************)
EXTENDS Integers, Sequences, FiniteSets, TLC

VARIABLES active_sessions, soul_archive, threads, now, response,
          stop_ok, terminal_since

vars == <<active_sessions, soul_archive, threads, now, response,
          stop_ok, terminal_since>>

(***************************************************************************)
(* Bounds of the model.                                                    *)
(***************************************************************************)
MaxThreads == 2
MaxTime == 1
MaxStops == 2

(***************************************************************************)
(* Inputs the request handlers are called with.                            *)
(***************************************************************************)
Blank == " "
Intentions == { <<>>, <<Blank>>, <<Blank, "calm">> }
ScalarIntentions == { <<>>, <<Blank>>, <<"heal", Blank>> }
Durations == { 0, 400 }
Frequencies == { -100, 0, 50 }
Multipliers == { 4 }
Prompts == { <<>>, <<"who was I">> }
Locations == { <<"home">> }
HeartbeatTexts == { {}, {"dizzy"}, {"ungrounded", "dizzy"} }

(***************************************************************************)
(* Program constants.                                                      *)
(***************************************************************************)
GRACE == 300
SCHUMANN == 783
BLESSING_DURATION == 120
BLESSING_FREQUENCY == 555
PAST_LIFE_DURATION == 120
AUTO_DURATION == 150
HARMONIZE_DURATION == 180
DEFAULT_INTERVAL_MS == 1
PAST_LIFE_INTERVAL_MS == 333
PHI_MICRO == 1618034
FIBONACCI == <<1, 1, 2, 3, 5, 8, 13, 21, 34, 55, 89, 144, 233, 377, 610, 987>>

NONE == 0 - 1
NoId == <<>>

Max(a, b) == IF a >= b THEN a ELSE b

(***************************************************************************)
(* Pure helpers.                                                           *)
(***************************************************************************)
\* str.strip(): drop leading and trailing blanks
RECURSIVE lstrip(_)
lstrip(s) == IF s # <<>> /\ Head(s) = Blank THEN lstrip(Tail(s)) ELSE s

RECURSIVE rstrip(_)
rstrip(s) ==
  IF s # <<>> /\ s[Len(s)] = Blank THEN rstrip(SubSeq(s, 1, Len(s) - 1)) ELSE s

strip(s) == rstrip(lstrip(s))

\* hashlib.md5(f"{seed}:{time.time()}").hexdigest(): the digest is modelled
\* by its preimage, so two ids are equal exactly when seed and clock agree
md5(seed, t) == <<seed, t>>

\* int(x * PHI) for an integer x; int() truncates toward zero
IntTimesPhi(x) ==
  IF x >= 0 THEN (x * PHI_MICRO) \div 1000000
            ELSE -(((-x) * PHI_MICRO) \div 1000000)

\* int(duration * PHI) alone, without the max
flower_scaled_duration(duration) == IntTimesPhi(duration)

\* flower_of_life_pattern(...)["optimal_duration"]
flower_optimal_duration(duration) == Max(duration, IntTimesPhi(duration))

\* divine_proportion_amplify(...)["fibonacci_multiplier"]
RECURSIVE FirstAtLeast(_, _)
FirstAtLeast(i, m) ==
  IF i > Len(FIBONACCI) THEN FIBONACCI[Len(FIBONACCI)]
  ELSE IF FIBONACCI[i] >= m THEN FIBONACCI[i]
  ELSE FirstAtLeast(i + 1, m)

fibonacci_multiplier(multiplier) == FirstAtLeast(1, multiplier)

(***************************************************************************)
(* The registry as a finite map, and the records stored in it.             *)
(***************************************************************************)
EmptyMap == [k \in {} |-> NONE]

Put(f, k, v) == [x \in (DOMAIN f) \cup {k} |-> IF x = k THEN v ELSE f[x]]

Drop(f, k) == [x \in (DOMAIN f) \ {k} |-> f[x]]

\* dict.update(fields) on the record stored under k
Merge(f, k, fields) ==
  [f EXCEPT ![k] = [n \in DOMAIN f[k] |->
                      IF n \in DOMAIN fields THEN fields[n] ELSE f[k][n]]]

Terminal == {"stopped", "completed"}

\* the dict literal every handler (or the generic worker) stores; a field the
\* literal does not have holds NONE, `type` holds "none" for the generic kind
NewRecord(type, intention, frequency, duration) ==
  [status |-> "running", start_time |-> now, type |-> type,
   intention |-> intention, frequency |-> frequency,
   duration |-> duration, remaining |-> duration,
   count |-> IF type = "none" THEN 0 ELSE NONE,
   field_strength |-> NONE, optimal_duration |-> NONE,
   derived |-> (type \in {"none", "past_life"})]

\* a thread made by threading.Thread(target=...).start(), with the values
\* its closure captured: stored_id is the handler's session_id, session_id
\* the id the thread reads and writes
NewThread(kind, stored_id, session_id, intention, duration, frequency, multiplier) ==
  [kind |-> kind, stored_id |-> stored_id, session_id |-> session_id,
   pc |-> "init",
   intention |-> intention, duration |-> duration, frequency |-> frequency, multiplier |-> multiplier,
   start |-> NONE, count |-> 0, wake |-> NONE, broke |-> FALSE,
   timer |-> "none", deadline |-> NONE, error |-> "none"]

\* history: the clock value at which the record under each key became
\* terminal; kept after the record is removed, dropped when the key holds a
\* running record again
TermSince(registry) ==
  LET running == {k \in DOMAIN registry : registry[k].status = "running"}
      term == {k \in DOMAIN registry : registry[k].status \in Terminal}
  IN [k \in ((DOMAIN terminal_since) \cup term) \ running |->
        IF k \in DOMAIN terminal_since THEN terminal_since[k] ELSE now]

\* no request handler ran in the last step
NoReply == [op |-> "none", code |-> 200, success |-> TRUE,
            session_id |-> NoId, data |-> <<>>]

Init ==
  /\ active_sessions = EmptyMap
  /\ soul_archive = <<>>
  /\ threads = <<>>
  /\ now = 0
  /\ response = NoReply
  /\ stop_ok = EmptyMap
  /\ terminal_since = EmptyMap

Reply(op, code, success, session_id, data) ==
  [op |-> op, code |-> code, success |-> success,
   session_id |-> session_id, data |-> data]

\* a tracker that keeps only the latest entry
track_latest_only(intention) ==
  <<[timestamp |-> now, intention |-> intention]>>

\* track_intention_pattern: soul_archive.append({timestamp, intention})
track_intention_pattern(intention) ==
  Append(soul_archive, [timestamp |-> now, intention |-> intention])

(***************************************************************************)
(* Request handlers that start a session.                                  *)
(*                                                                         *)
(* Sessions with different ids share no record.  The model follows the     *)
(* first session started and admits a further start request only when it   *)
(* computes an id that is already in use, up to MaxThreads threads.        *)
(***************************************************************************)
UsedIds ==
  (DOMAIN active_sessions) \cup (DOMAIN terminal_since)
    \cup {threads[i].session_id : i \in 1..Len(threads)}

Admit(session_id, n) ==
  /\ Len(threads) + n <= MaxThreads
  /\ threads = <<>> \/ session_id \in UsedIds

\* a handler that tracks the intention before it validates it
run_intention_tracking_first(raw, duration, frequency, multiplier) ==
  LET intention == strip(raw)
      session_id == md5(intention, now)
  IN /\ soul_archive' = track_intention_pattern(intention)
     /\ IF intention = <<>>
        THEN /\ response' = Reply("run_intention", 400, FALSE, NoId, <<>>)
             /\ UNCHANGED <<active_sessions, threads, now,
                            stop_ok, terminal_since>>
        ELSE /\ Admit(session_id, 1)
             /\ threads' = Append(threads,
                    NewThread("generic", session_id, session_id, intention,
                              duration, frequency, multiplier))
             /\ response' = Reply("run_intention", 200, TRUE, session_id, <<>>)
             /\ UNCHANGED <<active_sessions, now, stop_ok, terminal_since>>

\* POST /run-intention: the record is stored by the thread, not here
run_intention(raw, duration, frequency, multiplier) ==
  LET intention == strip(raw)
      session_id == md5(intention, now)
  IN IF intention = <<>>
     THEN /\ response' = Reply("run_intention", 400, FALSE, NoId, <<>>)
          /\ UNCHANGED <<active_sessions, soul_archive, threads, now,
                         stop_ok, terminal_since>>
     ELSE /\ Admit(session_id, 1)
          /\ soul_archive' = track_intention_pattern(intention)
          /\ threads' = Append(threads,
                 NewThread("generic", session_id, session_id, intention,
                           duration, frequency, multiplier))
          /\ response' = Reply("run_intention", 200, TRUE, session_id, <<>>)
          /\ UNCHANGED <<active_sessions, now, stop_ok, terminal_since>>

PAST_LIFE_INTENTION == <<"Past life insight is received">>

\* POST /log-past-life-request: no validation of the prompt
log_past_life_request(prompt) ==
  LET session_id == md5(prompt, now)
  IN /\ Admit(session_id, 1)
     /\ active_sessions' = Put(active_sessions, session_id,
            NewRecord("past_life", prompt, NONE, PAST_LIFE_DURATION))
     /\ threads' = Append(threads,
            NewThread("past_life", session_id, session_id,
                      PAST_LIFE_INTENTION,
                      PAST_LIFE_DURATION, NONE, 1))
     /\ response' = Reply("log_past_life_request", 200, TRUE, session_id, <<>>)
     /\ terminal_since' = TermSince(active_sessions')
     /\ UNCHANGED <<soul_archive, now, stop_ok>>

\* POST /broadcast-scalar
broadcast_scalar(raw, duration, hz) ==
  LET intention == strip(raw)
      session_id == md5(intention, now)
  IN IF intention = <<>>
     THEN /\ response' = Reply("broadcast_scalar", 400, FALSE, NoId, <<>>)
          /\ UNCHANGED <<active_sessions, soul_archive, threads, now,
                         stop_ok, terminal_since>>
     ELSE /\ Admit(session_id, 1)
          /\ soul_archive' = track_intention_pattern(intention)
          /\ active_sessions' = Put(active_sessions, session_id,
                 NewRecord("scalar", intention, hz, duration))
          /\ threads' = Append(threads,
                 NewThread("scalar", session_id, session_id, intention,
                           duration, hz, 1))
          /\ response' = Reply("broadcast_scalar", 200, TRUE, session_id, <<>>)
          /\ terminal_since' = TermSince(active_sessions')
          /\ UNCHANGED <<now, stop_ok>>

BLESSING_INTENTION == <<"Return to Light - 03 05 791">>

\* POST /blessing
blessing_of_return ==
  LET session_id == md5(<<"blessing">>, now)
  IN /\ Admit(session_id, 1)
     /\ active_sessions' = Put(active_sessions, session_id,
            NewRecord("blessing", BLESSING_INTENTION, BLESSING_FREQUENCY,
                      BLESSING_DURATION))
     /\ threads' = Append(threads,
            NewThread("blessing", session_id, session_id,
                      BLESSING_INTENTION,
                      BLESSING_DURATION,
                      BLESSING_FREQUENCY, 1))
     /\ response' = Reply("blessing_of_return", 200, TRUE, session_id, <<>>)
     /\ terminal_since' = TermSince(active_sessions')
     /\ UNCHANGED <<soul_archive, now, stop_ok>>

\* auto_responses, in the order the dict is iterated
AUTO_CUES == <<"i feel lost", "i'm afraid", "ungrounded", "dizzy">>

auto_responses(cue) ==
  CASE cue = "i feel lost" -> <<"Stabilization - 443 792 854 61523">>
    [] cue = "i'm afraid" -> <<"Safety Field - 55 16 987">>
    [] cue = "ungrounded" -> <<"Chakra Rooting - 10 010 5856">>
    [] cue = "dizzy" -> <<"Root Down - 51 86 923">>

\* the cues of auto_responses that occur in the text, in dict order; the
\* text is given by the set of cues it contains
RECURSIVE MatchedFrom(_, _)
MatchedFrom(i, text) ==
  IF i > Len(AUTO_CUES) THEN <<>>
  ELSE (IF AUTO_CUES[i] \in text THEN <<AUTO_CUES[i]>> ELSE <<>>)
         \o MatchedFrom(i + 1, text)

\* POST /heartbeat: per matched cue the record is stored under session_id
\* and a thread is started on thread_session_id
emotional_scan(text) ==
  LET session_id == md5(<<"heartbeat">>, now)
      matched == MatchedFrom(1, text)
      started == [j \in 1..Len(matched) |->
                    NewThread("auto_resonance", session_id,
                              md5(auto_responses(matched[j]), now),
                              auto_responses(matched[j]),
                              AUTO_DURATION, SCHUMANN, 1)]
  IN /\ Admit(session_id, Len(matched))
     /\ active_sessions' =
          IF matched = <<>> THEN active_sessions
          ELSE Put(active_sessions, session_id,
                   NewRecord("auto_resonance",
                             auto_responses(matched[Len(matched)]),
                             SCHUMANN, AUTO_DURATION))
     /\ threads' = threads \o started
     /\ response' = Reply("emotional_scan", 200, TRUE, NoId, <<>>)
     /\ terminal_since' = TermSince(active_sessions')
     /\ UNCHANGED <<soul_archive, now, stop_ok>>

\* POST /harmonize-space
harmonize_space(location) ==
  LET intention == <<"Harmonizing energetic field of ">> \o location
      session_id == md5(intention, now)
  IN /\ Admit(session_id, 1)
     /\ soul_archive' = track_intention_pattern(intention)
     /\ active_sessions' = Put(active_sessions, session_id,
            NewRecord("harmonization", intention, SCHUMANN, HARMONIZE_DURATION))
     /\ threads' = Append(threads,
            NewThread("harmonization", session_id, session_id, intention,
                      HARMONIZE_DURATION, SCHUMANN, 1))
     /\ response' = Reply("harmonize_space", 200, TRUE, session_id, <<>>)
     /\ terminal_since' = TermSince(active_sessions')
     /\ UNCHANGED <<now, stop_ok>>

(***************************************************************************)
(* Request handlers on an existing session.                                *)
(***************************************************************************)
UnknownId == md5(<<"unknown">>, 0)

\* the session ids a client may ask about
KnownIds ==
  (DOMAIN active_sessions) \cup (DOMAIN terminal_since)
    \cup {threads[i].session_id : i \in 1..Len(threads)} \cup {UnknownId}

\* GET /check-intention-status/<session_id>
check_intention_status(session_id) ==
  /\ response' =
       IF session_id \in DOMAIN active_sessions
       THEN Reply("check_intention_status", 200, TRUE, session_id,
                  <<active_sessions[session_id]>>)
       ELSE Reply("check_intention_status", 200, FALSE, session_id, <<>>)
  /\ UNCHANGED <<active_sessions, soul_archive, threads, now, stop_ok,
                 terminal_since>>

\* a stop handler that writes the status without testing for the id
stop_intention_unchecked(session_id) ==
  /\ session_id \in DOMAIN stop_ok => stop_ok[session_id] < MaxStops
  /\ active_sessions' =
       IF session_id \in DOMAIN active_sessions
       THEN [active_sessions EXCEPT ![session_id].status = "stopped"]
       ELSE Put(active_sessions, session_id,
                [NewRecord("intention", <<>>, 0, 0) EXCEPT !.status = "stopped"])
  /\ response' = Reply("stop_intention", 200,
                       session_id \in DOMAIN active_sessions, session_id, <<>>)
  /\ stop_ok' = Put(stop_ok, session_id,
       IF session_id \in DOMAIN stop_ok THEN stop_ok[session_id] + 1 ELSE 1)
  /\ terminal_since' = TermSince(active_sessions')
  /\ UNCHANGED <<soul_archive, threads, now>>

\* POST /stop-intention/<session_id>
stop_intention(session_id) ==
  /\ session_id \in DOMAIN stop_ok => stop_ok[session_id] < MaxStops
  /\ IF session_id \in DOMAIN active_sessions
     THEN /\ active_sessions' =
               [active_sessions EXCEPT ![session_id].status = "stopped"]
          /\ response' = Reply("stop_intention", 200, TRUE, session_id, <<>>)
          /\ stop_ok' = Put(stop_ok, session_id,
               IF session_id \in DOMAIN stop_ok THEN stop_ok[session_id] + 1
               ELSE 1)
     ELSE /\ response' = Reply("stop_intention", 200, FALSE, session_id, <<>>)
          /\ UNCHANGED <<active_sessions, stop_ok>>
  /\ terminal_since' = TermSince(active_sessions')
  /\ UNCHANGED <<soul_archive, threads, now>>

(***************************************************************************)
(* The worker threads: repeater, broadcast_activation,                     *)
(* scalar_wave_simulation, blessing_broadcast, auto_resonance_broadcast    *)
(* and broadcast_harmonization.  pc: init -> loop -> tick -> sleeping ->   *)
(* tick ... -> exit -> done, or crashed when a statement raises.           *)
(***************************************************************************)
SetThread(i, t) == [threads EXCEPT ![i] = t]

\* an exception leaves the thread function: the thread ends
Raise(t, exception) == [t EXCEPT !.pc = "crashed", !.error = exception]

\* torus_field["torus_frequency"] of the generic worker
torus_frequency(frequency) == IF frequency > 0 THEN frequency ELSE SCHUMANN

\* the duration the worker's while loop runs for
LoopDuration(t) ==
  IF t.kind \in {"generic", "blessing"}
  THEN flower_optimal_duration(t.duration)
  ELSE t.duration

\* the fields the worker's first update writes before its loop
InitialFields(t) ==
  IF t.kind = "blessing"
  THEN [derived |-> TRUE, optimal_duration |-> LoopDuration(t)]
  ELSE [derived |-> TRUE]

\* the start of a worker, up to its while loop
thread_init(i) ==
  LET t == threads[i]
      sid == t.session_id
      ready == [t EXCEPT !.pc = "loop", !.start = now,
                         !.duration = LoopDuration(t),
                         !.multiplier = fibonacci_multiplier(t.multiplier)]
  IN /\ t.pc = "init"
     /\ CASE t.kind = "generic" ->
               /\ active_sessions' = Put(active_sessions, sid,
                    NewRecord("none", t.intention,
                              torus_frequency(t.frequency), LoopDuration(t)))
               /\ threads' = SetThread(i, ready)
          [] t.kind = "past_life" ->
               /\ active_sessions' = active_sessions
               /\ threads' = SetThread(i, ready)
          [] OTHER ->
               IF sid \notin DOMAIN active_sessions
               THEN /\ active_sessions' = active_sessions
                    /\ threads' = SetThread(i, Raise(t, "KeyError"))
               ELSE /\ active_sessions' =
                         Merge(active_sessions, sid, InitialFields(t))
                    /\ threads' = SetThread(i,
                         IF t.kind = "scalar" /\ t.frequency = 0
                         THEN Raise(t, "ZeroDivisionError")
                         ELSE ready)
     /\ terminal_since' = TermSince(active_sessions')
     /\ response' = NoReply
     /\ UNCHANGED <<soul_archive, now, stop_ok>>

\* thread_loop with a stop check that only tests for a missing record
thread_loop_ignoring_stop(i) ==
  LET t == threads[i]
      sid == t.session_id
  IN /\ \/ t.pc = "loop"
        \/ t.pc = "sleeping" /\ now >= t.wake
     /\ threads' = SetThread(i,
          IF now - t.start < t.duration
          THEN IF sid \notin DOMAIN active_sessions
               THEN [t EXCEPT !.pc = "exit", !.broke = TRUE]
               ELSE [t EXCEPT !.pc = "tick"]
          ELSE [t EXCEPT !.pc = "exit"])
     /\ response' = NoReply
     /\ UNCHANGED <<active_sessions, soul_archive, now, stop_ok,
                    terminal_since>>

\* time.sleep has returned (or the loop is entered): the while condition
\* and the stop check at the head of the loop body
thread_loop(i) ==
  LET t == threads[i]
      sid == t.session_id
  IN /\ \/ t.pc = "loop"
        \/ t.pc = "sleeping" /\ now >= t.wake
     /\ threads' = SetThread(i,
          IF now - t.start < t.duration
          THEN IF \/ sid \notin DOMAIN active_sessions
                  \/ active_sessions[sid].status = "stopped"
               THEN [t EXCEPT !.pc = "exit", !.broke = TRUE]
               ELSE [t EXCEPT !.pc = "tick"]
          ELSE [t EXCEPT !.pc = "exit"])
     /\ response' = NoReply
     /\ UNCHANGED <<active_sessions, soul_archive, now, stop_ok,
                    terminal_since>>

\* the sleep interval in milliseconds; a negative one makes time.sleep raise
IntervalMs(t) ==
  CASE t.kind = "generic" ->
         IF t.frequency > 0 THEN 100000 \div torus_frequency(t.frequency)
         ELSE DEFAULT_INTERVAL_MS
    [] t.kind = "past_life" -> PAST_LIFE_INTERVAL_MS
    [] OTHER -> IF t.frequency > 0 THEN 100000 \div t.frequency ELSE NONE

\* the clock has one-second readings: a sleep ends at a later reading
SleepSeconds(ms) == Max(1, ms \div 1000)

\* max(0, int(duration - (time.time() - start)))
Remaining(t) == Max(0, t.duration - (now - t.start))

\* (count / duration) * 100, in whole percent
FieldStrength(count, duration) == (count * 100) \div duration

\* TickFields of a worker that writes back the status it read at its check
TickFieldsWithStatus(t, count) ==
  IF t.kind = "past_life"
  THEN [remaining |-> Remaining(t), status |-> "running"]
  ELSE [count |-> count, remaining |-> Remaining(t),
        field_strength |-> FieldStrength(count, t.duration),
        status |-> "running"]

\* the fields one tick's update writes
TickFields(t, count) ==
  IF t.kind = "past_life"
  THEN [remaining |-> Remaining(t)]
  ELSE [count |-> count, remaining |-> Remaining(t),
        field_strength |-> FieldStrength(count, t.duration)]

\* one loop body after the stop check: the update, then time.sleep
thread_tick(i) ==
  LET t == threads[i]
      sid == t.session_id
      count == IF t.kind = "past_life" THEN t.count ELSE t.count + t.multiplier
      ticked == [t EXCEPT !.count = count]
  IN /\ t.pc = "tick"
     /\ IF sid \notin DOMAIN active_sessions
        THEN /\ active_sessions' = active_sessions
             /\ threads' = SetThread(i, Raise(ticked, "KeyError"))
        ELSE /\ active_sessions' =
                  Merge(active_sessions, sid, TickFields(t, count))
             /\ threads' = SetThread(i,
                  IF IntervalMs(t) < 0
                  THEN Raise(ticked, "ValueError")
                  ELSE [ticked EXCEPT !.pc = "sleeping",
                          !.wake = now + SleepSeconds(IntervalMs(t))])
     /\ terminal_since' = TermSince(active_sessions')
     /\ response' = NoReply
     /\ UNCHANGED <<soul_archive, now, stop_ok>>

\* after the loop: status = "completed", then threading.Timer(300, pop)
thread_exit(i) ==
  LET t == threads[i]
      sid == t.session_id
  IN /\ t.pc = "exit"
     /\ IF sid \notin DOMAIN active_sessions
        THEN /\ active_sessions' = active_sessions
             /\ threads' = SetThread(i, Raise(t, "KeyError"))
        ELSE /\ active_sessions' =
                  [active_sessions EXCEPT ![sid].status = "completed"]
             /\ threads' = SetThread(i,
                  [t EXCEPT !.pc = "done", !.timer = "pending",
                            !.deadline = now + GRACE])
     /\ terminal_since' = TermSince(active_sessions')
     /\ response' = NoReply
     /\ UNCHANGED <<soul_archive, now, stop_ok>>

\* a callback that pops without a default: active_sessions.pop(session_id)
\* raises KeyError when the id is absent
timer_fire_without_default(i) ==
  LET t == threads[i]
  IN /\ t.timer = "pending"
     /\ now >= t.deadline
     /\ active_sessions' = Drop(active_sessions, t.session_id)
     /\ threads' = SetThread(i,
          IF t.session_id \in DOMAIN active_sessions
          THEN [t EXCEPT !.timer = "fired"]
          ELSE [t EXCEPT !.timer = "fired", !.error = "KeyError"])
     /\ terminal_since' = TermSince(active_sessions')
     /\ response' = NoReply
     /\ UNCHANGED <<soul_archive, now, stop_ok>>

\* the Timer's callback: active_sessions.pop(session_id, None)
timer_fire(i) ==
  LET t == threads[i]
  IN /\ t.timer = "pending"
     /\ now >= t.deadline
     /\ active_sessions' = Drop(active_sessions, t.session_id)
     /\ threads' = SetThread(i, [t EXCEPT !.timer = "fired"])
     /\ terminal_since' = TermSince(active_sessions')
     /\ response' = NoReply
     /\ UNCHANGED <<soul_archive, now, stop_ok>>

(***************************************************************************)
(* The clock.  A thread's statements take no time and a sleep or a timer   *)
(* ends when it is due: the clock stands still while a thread can run or   *)
(* a timer can fire.  It advances second by second up to MaxTime and from  *)
(* there on jumps to the next time a thread's loop or a timer is due (the  *)
(* sleeps in between last longer than asked); when nothing is due it       *)
(* jumps once past a grace period.                                         *)
(***************************************************************************)
Live(t) == t.pc \in {"loop", "tick", "sleeping"}

Waiting(t) ==
  /\ t.pc \in {"sleeping", "done", "crashed"}
  /\ t.pc = "sleeping" => t.wake > now
  /\ t.timer = "pending" => t.deadline > now

DueTimes ==
  {threads[i].deadline : i \in {j \in 1..Len(threads) :
                                  threads[j].timer = "pending"}}
  \cup {Max(threads[i].wake, threads[i].start + threads[i].duration) :
          i \in {j \in 1..Len(threads) : Live(threads[j])}}

Earliest(S) == CHOOSE t \in S : \A u \in S : t <= u

Tick ==
  /\ \A i \in 1..Len(threads) : Waiting(threads[i])
  /\ \/ /\ now < MaxTime
        /\ now' = now + 1
     \/ /\ now >= MaxTime
        /\ DueTimes # {}
        /\ now' = Earliest(DueTimes)
     \/ /\ now >= MaxTime
        /\ DueTimes = {}
        /\ threads # <<>>
        /\ now <= MaxTime + GRACE
        /\ now' = now + GRACE + 1
  /\ response' = NoReply
  /\ UNCHANGED <<active_sessions, soul_archive, threads, stop_ok,
                 terminal_since>>

Next ==
  \/ \E raw \in Intentions, d \in Durations, f \in Frequencies,
        m \in Multipliers : run_intention(raw, d, f, m)
  \/ \E prompt \in Prompts : log_past_life_request(prompt)
  \/ \E raw \in ScalarIntentions, d \in Durations, f \in Frequencies :
        broadcast_scalar(raw, d, f)
  \/ blessing_of_return
  \/ \E text \in HeartbeatTexts : emotional_scan(text)
  \/ \E location \in Locations : harmonize_space(location)
  \/ \E id \in KnownIds : check_intention_status(id)
  \/ \E id \in KnownIds : stop_intention(id)
  \/ \E i \in 1..Len(threads) : thread_init(i)
  \/ \E i \in 1..Len(threads) : thread_loop(i)
  \/ \E i \in 1..Len(threads) : thread_tick(i)
  \/ \E i \in 1..Len(threads) : thread_exit(i)
  \/ \E i \in 1..Len(threads) : timer_fire(i)
  \/ Tick

Spec == Init /\ [][Next]_vars

(***************************************************************************)
(* The polling scenario: one generic session, seed "I am calm", duration 2 *)
(* and frequency 10 Hz, default multiplier, that is polled and never       *)
(* stopped.  The request arrives at any of the first ScenarioSteps clock   *)
(* readings; the clock then advances second by second through the          *)
(* session's run, jumps to the removal timer's deadline and goes on for    *)
(* ScenarioTail seconds after the timer has fired.                         *)
(***************************************************************************)
ScenarioSteps == 6
ScenarioTail == 3

ScenarioIntentions == { <<"I am calm">> }
ScenarioDurations == { 2 }
ScenarioFrequencies == { 1000 }
ScenarioMultipliers == { 1 }

ScenarioTick ==
  /\ \A i \in 1..Len(threads) : Waiting(threads[i])
  /\ \/ /\ now < ScenarioSteps
        /\ now' = now + 1
     \/ /\ now >= ScenarioSteps
        /\ DueTimes # {}
        /\ now' = Earliest(DueTimes)
     \/ /\ now >= ScenarioSteps
        /\ DueTimes = {}
        /\ threads # <<>>
        /\ \E i \in 1..Len(threads) :
             threads[i].timer = "fired"
               /\ now < threads[i].deadline + ScenarioTail
        /\ now' = now + 1
  /\ response' = NoReply
  /\ UNCHANGED <<active_sessions, soul_archive, threads, stop_ok,
                 terminal_since>>

ScenarioNext ==
  \/ /\ threads = <<>>
     /\ \E raw \in ScenarioIntentions, d \in ScenarioDurations,
           f \in ScenarioFrequencies, m \in ScenarioMultipliers :
           run_intention(raw, d, f, m)
  \/ \E id \in KnownIds : check_intention_status(id)
  \/ \E i \in 1..Len(threads) : thread_init(i)
  \/ \E i \in 1..Len(threads) : thread_loop(i)
  \/ \E i \in 1..Len(threads) : thread_tick(i)
  \/ \E i \in 1..Len(threads) : thread_exit(i)
  \/ \E i \in 1..Len(threads) : timer_fire(i)
  \/ ScenarioTick

ScenarioSpec == Init /\ [][ScenarioNext]_vars

(***************************************************************************)
(* Properties.                                                             *)
(***************************************************************************)
Status(k) == active_sessions[k].status

Kept == (DOMAIN active_sessions) \cap (DOMAIN active_sessions')

StartOps == {"run_intention", "log_past_life_request", "broadcast_scalar",
             "blessing_of_return", "harmonize_space"}

Ended(t) == t.pc \in {"done", "crashed"}

\* a step that stores a new record: a start handler, or the generic worker
\* reaching its registry assignment; the record it stores is a new session
Registers ==
  \/ response'.op \in StartOps \cup {"emotional_scan"}
  \/ \E i \in 1..Len(threads) :
       threads[i].kind = "generic" /\ threads[i].pc = "init"
         /\ threads'[i].pc # "init"

\* C1: a record's status changes only from running to stopped or from
\* running to completed; a stopped or completed status never changes again
\* (steps that store a new session's record are not counted).
C1_StatusOnlyLeavesRunning ==
  [][~Registers =>
       \A k \in Kept :
         active_sessions'[k].status # Status(k) =>
           Status(k) = "running" /\ active_sessions'[k].status \in Terminal]_vars

\* C2: a worker that left its loop at the stop check writes nothing more to
\* the registry, and a stopped record stays stopped until it is removed
\* (steps that store a new session's record are not counted).
C2_StoppedUntilRemoved ==
  [][~Registers =>
       /\ \A i \in 1..Len(threads) :
            threads[i].pc = "exit" /\ threads[i].broke /\ threads'[i].pc # "exit"
              => active_sessions' = active_sessions
       /\ \A k \in Kept :
            Status(k) = "stopped" => active_sessions'[k].status = "stopped"]_vars

\* C3: of the stop requests made for one session id, at most one reports
\* success.
C3_OneEffectiveStop == \A k \in DOMAIN stop_ok : stop_ok[k] <= 1

\* C4: a stop request for a present, completed session reports failure and
\* leaves the registry unchanged; it reports success only for a session that
\* was running when it was made.
C4_StopOnlyRunning ==
  [][response'.op = "stop_intention" =>
       LET k == response'.session_id
       IN /\ (k \in DOMAIN active_sessions /\ Status(k) = "completed")
               => ~response'.success /\ active_sessions' = active_sessions
          /\ response'.success
               => k \in DOMAIN active_sessions /\ Status(k) = "running"]_vars

\* C5: when a start request has just returned a session id, the registry
\* holds a running record under that id.
C5_ReturnedIdIsRegistered ==
  (response.op \in StartOps /\ response.success) =>
     /\ response.session_id \in DOMAIN active_sessions
     /\ Status(response.session_id) = "running"

\* C6: every worker reads and writes the id under which its session's
\* record was stored.
C6_WorkerBoundToStoredId ==
  \A i \in 1..Len(threads) : threads[i].session_id = threads[i].stored_id

\* C7: no record stays running once every worker started for it has ended
\* (a running record always has a worker that will bring it to an end).
C7_RunningRecordHasWorker ==
  \A k \in DOMAIN active_sessions :
     Status(k) = "running" =>
       \E i \in 1..Len(threads) :
          threads[i].stored_id = k /\ ~Ended(threads[i])

\* C8: no worker ends by an exception.
C8_NoWorkerRaises == \A i \in 1..Len(threads) : threads[i].pc # "crashed"

\* C9: a record is removed only when it is stopped or completed and has
\* been so for at least the grace delay.
C9_RemovedOnlyAfterGrace ==
  [][\A k \in (DOMAIN active_sessions) \ (DOMAIN active_sessions') :
       /\ Status(k) \in Terminal
       /\ k \in DOMAIN terminal_since
       /\ now >= terminal_since[k] + GRACE]_vars

\* C10: a session that became stopped or completed is in the registry at
\* every time before its grace delay has elapsed and absent at every time
\* after it.
C10_PresentExactlyDuringGrace ==
  \A k \in DOMAIN terminal_since :
     /\ now < terminal_since[k] + GRACE => k \in DOMAIN active_sessions
     /\ now > terminal_since[k] + GRACE => k \notin DOMAIN active_sessions

\* a start request that is refused: a failure reply, no record, no thread
Refused ==
  /\ ~response'.success
  /\ active_sessions' = active_sessions
  /\ threads' = threads

\* C11: a start request whose seed is empty is refused, for the generic
\* intention, the scalar transmission and the past-life prompt.
C11_EmptySeedRefused ==
  [][/\ \A raw \in Intentions, d \in Durations, f \in Frequencies,
           m \in Multipliers :
           strip(raw) = <<>> /\ run_intention(raw, d, f, m) => Refused
     /\ \A raw \in ScalarIntentions, d \in Durations, f \in Frequencies :
           strip(raw) = <<>> /\ broadcast_scalar(raw, d, f) => Refused
     /\ \A prompt \in Prompts :
           prompt = <<>> /\ log_past_life_request(prompt) => Refused]_vars

\* the step stores a new session's record under k: a start handler's
\* registry assignment, or the generic worker's
Stores(k) ==
  \/ /\ response'.op \in StartOps \ {"run_intention"}
     /\ response'.success
     /\ response'.session_id = k
  \/ /\ response'.op = "emotional_scan"
     /\ Len(threads') > Len(threads)
     /\ k = md5(<<"heartbeat">>, now)
  \/ \E i \in 1..Len(threads) :
       /\ threads[i].kind = "generic" /\ threads[i].session_id = k
       /\ threads[i].pc = "init" /\ threads'[i].pc # "init"

\* C12: a new session's record is never stored under an id that is in the
\* registry at that moment.
C12_NewRecordUnderFreshId ==
  [][\A k \in DOMAIN active_sessions : ~Stores(k)]_vars

\* C13: no two workers that have not ended read and write the same session
\* id.
C13_OneLiveWorkerPerId ==
  \A i, j \in 1..Len(threads) :
     (i < j /\ ~Ended(threads[i]) /\ ~Ended(threads[j]))
       => threads[i].session_id # threads[j].session_id

\* C14: from one write of a session's record to the next the stored
\* remaining never increases, and it is not written once the record is
\* completed (steps that store a new session's record are not counted).
C14_RemainingNeverIncreases ==
  [][~Registers =>
       \A k \in Kept :
         /\ active_sessions'[k].remaining <= active_sessions[k].remaining
         /\ Status(k) = "completed" =>
              active_sessions'[k].remaining = active_sessions[k].remaining]_vars

\* C15: a generic or scalar worker whose frequency is zero never raises a
\* division by zero, and when it sleeps it sleeps the fixed minimum interval.
C15_ZeroFrequencyMinimumTick ==
  \A i \in 1..Len(threads) :
     (threads[i].kind \in {"generic", "scalar"} /\ threads[i].frequency = 0)
       => /\ threads[i].error # "ZeroDivisionError"
          /\ threads[i].pc = "sleeping"
               => IntervalMs(threads[i]) = DEFAULT_INTERVAL_MS

\* the fields of a record other than its status: the ones workers write
Progress(record) == [record EXCEPT !.status = "any"]

\* C16: the derived and progress fields of a record change only while its
\* status is running (steps that store a new session's record are not
\* counted).
C16_ProgressOnlyWhileRunning ==
  [][~Registers =>
       \A k \in Kept :
         Progress(active_sessions'[k]) # Progress(active_sessions[k])
           => Status(k) = "running"]_vars

\* the record thread i reads is in the registry and reads stopped
SeesStopped(i) ==
  /\ threads[i].session_id \in DOMAIN active_sessions
  /\ Status(threads[i].session_id) = "stopped"

\* The loop's status check: while its record reads stopped a worker starts
\* no tick: a worker that reaches its status check with time left leaves the
\* loop there, and a worker that was past the check writes its one tick and
\* goes to sleep, so its next step is that check.
C17_StoppedWorkerStartsNoTick ==
  [][\A i \in 1..Len(threads) :
       /\ (SeesStopped(i) /\ threads[i].pc # "tick")
            => threads'[i].pc # "tick"
       /\ (SeesStopped(i) /\ threads[i].pc \in {"loop", "sleeping"}
              /\ threads'[i].pc # threads[i].pc)
            => threads'[i].pc = "exit"
       /\ (threads[i].pc = "tick" /\ threads'[i] # threads[i])
            => threads'[i].pc \in {"sleeping", "crashed"}]_vars

\* a worker that had ticked found its record stopped at the status check and
\* left its loop
C17_Witness ==
  \E i \in 1..Len(threads) :
     /\ threads[i].pc = "exit" /\ threads[i].broke /\ threads[i].count > 0
     /\ SeesStopped(i)

\* C17: after a stop request has set a session's status to stopped, no
\* worker of that session starts a new tick: no worker enters a tick while
\* the session's record is in the registry, has been stopped and has ended.
C17_NoTickAfterStop ==
  [][\A i \in 1..Len(threads) :
       (threads'[i].pc = "tick" /\ threads[i].pc # "tick")
         => ~(/\ threads[i].session_id \in DOMAIN stop_ok
              /\ threads[i].session_id \in DOMAIN active_sessions
              /\ threads[i].session_id \in DOMAIN terminal_since)]_vars

\* a record in which a tick's update is applied wholly or not at all: the
\* counter and the field strength are written by the same update
Whole(record) ==
  record.type # "past_life" =>
     (record.count > 0 <=> record.field_strength # NONE)

Polled ==
  /\ response.op = "check_intention_status"
  /\ response.session_id # UnknownId

Elapsed == now - response.session_id[2]

\* C19: in the polling scenario a status reply that finds the session
\* running after its worker has ticked reports iterations above zero and a
\* remaining time below the requested duration.
C19_PollWhileRunning ==
  \A d \in ScenarioDurations :
     (/\ Polled /\ response.success
      /\ response.data[1].status = "running"
      /\ \E i \in 1..Len(threads) : threads[i].count > 0)
       => /\ response.data[1].count > 0
          /\ response.data[1].remaining < d

\* C20: in the polling scenario a status reply 3 s after the start reports
\* completed, and a status request 305 s after the start finds no session.
C20_PollAfterEnd ==
  Polled =>
     /\ Elapsed = 3 =>
          response.success /\ response.data[1].status = "completed"
     /\ Elapsed = 305 => ~response.success

(***************************************************************************)
(* The sacred-geometry generators.  A digest is modelled by its preimage.  *)
(* A seed is a sequence of characters; ord gives a character's code point. *)
(* datetime.now() is the local time of day of the clock `now`.             *)
(***************************************************************************)
MaxSeedLen == 2
MaxWallHours == 3

Alphabet == { "a", "l", " " }
ord(c) == CASE c = "a" -> 97 [] c = "l" -> 108 [] c = " " -> 32

RECURSIVE SeedsOfLen(_)
SeedsOfLen(n) ==
  IF n = 0 THEN { <<>> }
  ELSE { Append(s, c) : s \in SeedsOfLen(n - 1), c \in Alphabet }

Seeds == UNION { SeedsOfLen(n) : n \in 0..MaxSeedLen }
GeneratorSeeds == { <<"a">>, <<"l", " ">> }
GeneratorDurations == (0 - 4)..7
GeneratorMultipliers == ((0 - 2)..14) \cup { 986, 987, 988, 1500 }
SolidTypes == { "tetrahedron", "hexahedron", "octahedron", "dodecahedron",
                "icosahedron", "cube", "" }
WallSteps == { 2700 }

\* sum(ord(c) for c in intention)
RECURSIVE SumOrd(_)
SumOrd(s) == IF s = <<>> THEN 0 ELSE ord(Head(s)) + SumOrd(Tail(s))

\* divine_proportion_amplify
divine_proportion_amplify(intention, multiplier) ==
  [original |-> intention,
   phi_amplified |-> <<"sha256", intention>>,
   fibonacci_multiplier |-> fibonacci_multiplier(multiplier),
   metatronic_alignment |->
     IF SumOrd(intention) % 9 = 0 THEN 9 ELSE SumOrd(intention) % 9]

\* PLANETARY_ANGLES, in dict order; angles in quarter degrees
PLANETARY_ANGLES ==
  << <<"sun", 0>>, <<"moon", 120>>, <<"mercury", 240>>, <<"venus", 360>>,
     <<"mars", 480>>, <<"jupiter", 600>>, <<"saturn", 720>>,
     <<"uranus", 840>>, <<"neptune", 960>>, <<"pluto", 1080>> >>

Abs(x) == IF x < 0 THEN 0 - x ELSE x

\* now.hour and now.minute of datetime.now()
hour(t) == (t \div 3600) % 24
minute(t) == (t \div 60) % 60

\* (now.hour * 15) + (now.minute / 4), in quarter degrees
cosmic_degree(t) == hour(t) * 60 + minute(t)

\* min(PLANETARY_ANGLES.items(), key=...)[0]: the first closest planet
aligned_planet(degree) ==
  LET dist(i) == Abs(PLANETARY_ANGLES[i][2] - degree)
      best == CHOOSE i \in 1..Len(PLANETARY_ANGLES) :
                /\ \A j \in 1..Len(PLANETARY_ANGLES) : dist(i) <= dist(j)
                /\ \A j \in 1..(i - 1) : dist(j) > dist(i)
  IN  PLANETARY_ANGLES[best][1]

\* flower_of_life_pattern, called when the clock reads t
flower_of_life_pattern(intention, duration, t) ==
  [intention |-> intention,
   flower_pattern |-> <<"sha256", intention>>,
   planetary_alignment |-> aligned_planet(cosmic_degree(t)),
   cosmic_degree |-> cosmic_degree(t),
   optimal_duration |-> flower_optimal_duration(duration),
   vesica_pisces_code |-> <<"sha256", intention>>]

\* harmonic = sum(ord(c) for c in intention) % 9, without the completion rule
harmonic_without_completion(intention) == SumOrd(intention) % 9

\* harmonic = sum(ord(c) for c in intention) % 9; if harmonic == 0: 9
harmonic(intention) ==
  IF SumOrd(intention) % 9 = 0 THEN 9 ELSE SumOrd(intention) % 9

\* metatrons_cube_amplifier
metatrons_cube_amplifier(intention, boost) ==
  [intention |-> intention,
   metatron_code |-> <<"sha512", intention, IF boost THEN 13 ELSE 5>>,
   harmonic |-> harmonic(intention),
   activation_key |-> <<harmonic(intention) * 3, harmonic(intention) * 6,
                        harmonic(intention) * 9>>]

(***************************************************************************)
(* Floating point.  A float is an integer count of units of 2^-FRACTION,   *)
(* representable when its magnitude is m * 2^e with m < 2^PRECISION; an    *)
(* arithmetic result is rounded to the nearest representable value, ties   *)
(* to even.  The interpreter's floats have 53 significand bits; the model  *)
(* keeps the rounding rule at a width whose values TLC's integers hold.    *)
(***************************************************************************)
PRECISION == 11
FRACTION == PRECISION + 1
Unit == 2 ^ FRACTION

RECURSIVE Quantum(_, _)
Quantum(a, q) == IF a < (2 ^ PRECISION) * q THEN q ELSE Quantum(a, 2 * q)

\* round to nearest representable, ties to even
fround(x) ==
  LET a == Abs(x)
      q == Quantum(a, 1)
      lo == a \div q
      r == a % q
      n == IF 2 * r < q THEN lo
           ELSE IF 2 * r > q THEN lo + 1
           ELSE IF lo % 2 = 0 THEN lo ELSE lo + 1
  IN  IF x < 0 THEN 0 - (n * q) ELSE n * q

\* C fmod(x, w), w > 0: exact, with the sign of x
fmod(x, w) == IF x < 0 THEN 0 - ((0 - x) % w) ELSE x % w

\* float.__mod__ (x % w), w > 0: mod = fmod(x, w); if mod < 0: mod += w
float_rem(x, w) ==
  LET mod == fmod(x, w) IN IF mod < 0 THEN fround(mod + w) ELSE mod

TorusFrequencies ==
  { 0 - 2, 0 - 1, 0, 1, fround((783 * Unit) \div 100) }
    \cup { k * (Unit \div 4) : k \in (0 - 6)..6 }

\* phase_angle = (hz * 360) % 360
phase_angle(hz) == float_rem(fround(hz * 360), 360 * Unit)

\* tesla_node = min([3, 6, 9], key=lambda x: abs(x - (hz % 10)))
tesla_node(hz) ==
  LET nodes == <<3, 6, 9>>
      dist(i) == Abs(fround(nodes[i] * Unit - float_rem(hz, 10 * Unit)))
      best == CHOOSE i \in 1..3 :
                /\ \A j \in 1..3 : dist(i) <= dist(j)
                /\ \A j \in 1..(i - 1) : dist(j) > dist(i)
  IN  nodes[best]

\* torus_field_generator
torus_field_generator(intention, hz) ==
  [intention |-> intention,
   torus_frequency |-> hz,
   inner_flow |-> <<"sha512", intention, "inner">>,
   outer_flow |-> <<"sha512", intention, "outer">>,
   phase_angle |-> phase_angle(hz),
   tesla_node |-> tesla_node(hz)]

\* platonic_properties
platonic_properties ==
  [solid \in { "tetrahedron", "hexahedron", "octahedron", "dodecahedron",
               "icosahedron" } |->
     CASE solid = "tetrahedron" ->
            [vertices |-> 4, edges |-> 6, faces |-> 4, element |-> "fire"]
       [] solid = "hexahedron" ->
            [vertices |-> 8, edges |-> 12, faces |-> 6, element |-> "earth"]
       [] solid = "octahedron" ->
            [vertices |-> 6, edges |-> 12, faces |-> 8, element |-> "air"]
       [] solid = "dodecahedron" ->
            [vertices |-> 20, edges |-> 30, faces |-> 12, element |-> "ether"]
       [] solid = "icosahedron" ->
            [vertices |-> 12, edges |-> 30, faces |-> 20, element |-> "water"]]

\* element_frequency
element_frequency ==
  [element \in { "fire", "earth", "air", "water", "ether" } |->
     CASE element = "fire" -> 396 [] element = "earth" -> 417
       [] element = "air" -> 528 [] element = "water" -> 639
       [] element = "ether" -> 741]

\* a resonator that looks the solid up without the default
solid_type_as_given(solid_type) == solid_type

\* if solid_type not in platonic_properties: solid_type = "dodecahedron"
solid_type_or_default(solid_type) ==
  IF solid_type \notin DOMAIN platonic_properties THEN "dodecahedron"
  ELSE solid_type

\* platonic_solid_resonator; platonic_properties[solid_type] raises KeyError
\* for a name that is not in the table
platonic_solid_resonator(intention, solid_type) ==
  LET solid == solid_type_or_default(solid_type) IN
  IF solid \notin DOMAIN platonic_properties
  THEN [exception |-> "KeyError"]
  ELSE LET properties == platonic_properties[solid]
           freq == element_frequency[properties.element]
       IN  [intention |-> intention,
            solid_type |-> solid,
            element |-> properties.element,
            vertices |-> [i \in 1..properties.vertices |->
                            <<"sha256", intention, i - 1>>],
            element_frequency |-> freq,
            activation_code |->
              <<freq, properties.vertices, properties.faces>>]

(***************************************************************************)
(* The generators as a state machine: each step is one call, and response  *)
(* holds the arguments and the value returned. The clock advances between  *)
(* calls.                                                                  *)
(***************************************************************************)
Return(op, args, value) == Reply(op, 200, TRUE, NoId, <<args, value>>)

call_divine_proportion_amplify ==
  \E intention \in GeneratorSeeds, multiplier \in GeneratorMultipliers :
    /\ response' = Return("divine_proportion_amplify", <<intention, multiplier>>,
                          divine_proportion_amplify(intention, multiplier))
    /\ UNCHANGED <<active_sessions, soul_archive, threads, now, stop_ok,
                   terminal_since>>

call_flower_of_life_pattern ==
  \E intention \in GeneratorSeeds, duration \in GeneratorDurations :
    /\ response' = Return("flower_of_life_pattern", <<intention, duration>>,
                          flower_of_life_pattern(intention, duration, now))
    /\ UNCHANGED <<active_sessions, soul_archive, threads, now, stop_ok,
                   terminal_since>>

call_metatrons_cube_amplifier ==
  \E intention \in Seeds, boost \in BOOLEAN :
    /\ response' = Return("metatrons_cube_amplifier", <<intention, boost>>,
                          metatrons_cube_amplifier(intention, boost))
    /\ UNCHANGED <<active_sessions, soul_archive, threads, now, stop_ok,
                   terminal_since>>

call_torus_field_generator ==
  \E intention \in GeneratorSeeds, hz \in TorusFrequencies :
    /\ response' = Return("torus_field_generator", <<intention, hz>>,
                          torus_field_generator(intention, hz))
    /\ UNCHANGED <<active_sessions, soul_archive, threads, now, stop_ok,
                   terminal_since>>

call_platonic_solid_resonator ==
  \E intention \in GeneratorSeeds, solid_type \in SolidTypes :
    /\ response' = Return("platonic_solid_resonator", <<intention, solid_type>>,
                          platonic_solid_resonator(intention, solid_type))
    /\ UNCHANGED <<active_sessions, soul_archive, threads, now, stop_ok,
                   terminal_since>>

WallTick ==
  /\ \E step \in WallSteps :
       /\ now + step <= MaxWallHours * 3600
       /\ now' = now + step
  /\ UNCHANGED <<active_sessions, soul_archive, threads, response, stop_ok,
                 terminal_since>>

GeneratorNext ==
  \/ call_divine_proportion_amplify
  \/ call_flower_of_life_pattern
  \/ call_metatrons_cube_amplifier
  \/ call_torus_field_generator
  \/ call_platonic_solid_resonator
  \/ WallTick

GeneratorSpec == Init /\ [][GeneratorNext]_vars

(***************************************************************************)
(* Properties of the generators.                                           *)
(***************************************************************************)
GeneratorOps == { "divine_proportion_amplify", "flower_of_life_pattern",
                  "metatrons_cube_amplifier", "torus_field_generator",
                  "platonic_solid_resonator" }

\* the generator called in the last step, its arguments and its result
Called(op) == response.op = op
Args == response.data[1]
Result == response.data[2]

\* C21: every generator is deterministic in its arguments: a generator
\* called again with the arguments of the call before it returns the same
\* value, whatever the wall clock reads at the two calls.
C21_GeneratorsDeterministic ==
  [][(/\ response.op \in GeneratorOps
      /\ response'.op = response.op
      /\ response'.data[1] = response.data[1])
     => response'.data[2] = response.data[2]]_vars

\* C22: divine_proportion_amplify maps every multiplier to the value of
\* FIBONACCI nearest to it (no value of the sequence is closer to the
\* multiplier than the one returned), and never returns more than 987.
C22_NearestFibonacci ==
  Called("divine_proportion_amplify") =>
    LET multiplier == Args[2]
        returned == Result.fibonacci_multiplier
    IN  /\ \E i \in 1..Len(FIBONACCI) : returned = FIBONACCI[i]
        /\ returned <= 987
        /\ \A i \in 1..Len(FIBONACCI) :
             Abs(returned - multiplier) <= Abs(FIBONACCI[i] - multiplier)

\* C23: for every non-empty seed and either value of boost, the harmonic
\* metatrons_cube_amplifier returns is the sum of the seed's character codes
\* modulo 9, with 0 replaced by 9, and so always lies in 1..9.
C23_HarmonicInOneToNine ==
  (Called("metatrons_cube_amplifier") /\ Args[1] # <<>>) =>
    /\ Result.harmonic \in 1..9
    /\ Result.harmonic % 9 = SumOrd(Args[1]) % 9

\* a full-grid call whose character codes sum to a multiple of 9
C23_Witness ==
  /\ Called("metatrons_cube_amplifier")
  /\ Args[1] # <<>>
  /\ Args[2] = TRUE
  /\ SumOrd(Args[1]) % 9 = 0
  /\ Result.harmonic = 9

\* C24: for every frequency, positive, zero or negative, the phase angle
\* torus_field_generator returns satisfies 0 <= phase_angle < 360.
C24_PhaseAngleBelow360 ==
  Called("torus_field_generator") =>
    /\ 0 <= Result.phase_angle
    /\ Result.phase_angle < 360 * Unit

\* max(duration, duration * PHI) of the reals, in millionths
MaxWithPhiMicro(duration) == Max(duration * 1000000, duration * PHI_MICRO)

\* C25 as stated: the optimal duration flower_of_life_pattern returns equals
\* max(duration, duration * phi) for every requested duration.
C25_OptimalIsMaxWithPhi ==
  Called("flower_of_life_pattern") =>
    Result.optimal_duration * 1000000 = MaxWithPhiMicro(Args[2])

\* C25: the optimal duration flower_of_life_pattern returns is
\* max(duration, duration * phi) truncated toward zero to a whole number,
\* and is never less than the requested duration, for positive, zero and
\* negative durations.
C25_OptimalIsTruncatedMax ==
  Called("flower_of_life_pattern") =>
    LET optimal == Result.optimal_duration * 1000000
        exact == MaxWithPhiMicro(Args[2])
    IN  /\ Result.optimal_duration >= Args[2]
        /\ Abs(optimal) <= Abs(exact)
        /\ Abs(exact) - Abs(optimal) < 1000000
        /\ (optimal < 0) = (exact < 0)

\* a positive request that is extended, by less than the factor phi
C25_Witness ==
  /\ Called("flower_of_life_pattern")
  /\ Args[2] > 0
  /\ Result.optimal_duration > Args[2]
  /\ Result.optimal_duration * 1000000 < MaxWithPhiMicro(Args[2])

(***************************************************************************)
(* Properties of the session engine, continued.                            *)
(***************************************************************************)
\* C26: check_intention_status and stop_intention called with an id that is
\* not in active_sessions reply success = false and leave active_sessions
\* exactly as it was.
C26_UnknownIdChangesNothing ==
  [][(/\ response'.op \in {"check_intention_status", "stop_intention"}
      /\ response'.session_id \notin DOMAIN active_sessions)
     => (/\ response'.success = FALSE
         /\ active_sessions' = active_sessions)]_vars

\* a stop request for an unknown id refused while a session is registered
C26_Witness ==
  /\ response.op = "stop_intention"
  /\ response.session_id \notin DOMAIN active_sessions
  /\ response.success = FALSE
  /\ active_sessions # EmptyMap

\* C27: platonic_solid_resonator called with a solid name that is not in
\* platonic_properties never fails and returns what it returns for the
\* default "dodecahedron": 20 vertices, element ether, frequency 741.
C27_UnknownSolidIsDodecahedron ==
  (Called("platonic_solid_resonator")
     /\ Args[2] \notin DOMAIN platonic_properties) =>
    /\ "exception" \notin DOMAIN Result
    /\ Result = platonic_solid_resonator(Args[1], "dodecahedron")
    /\ Result.solid_type = "dodecahedron"
    /\ Len(Result.vertices) = 20
    /\ Result.element = "ether"
    /\ Result.element_frequency = 741

\* the resonator called with a name outside the table
C27_Witness ==
  /\ Called("platonic_solid_resonator")
  /\ Args[2] = "cube"
  /\ Result.element = "ether"

(***************************************************************************)
(* The soul archive with every handler that tracks an intention:           *)
(* run_intention, broadcast_scalar, harmonize_space and remember_intention.*)
(***************************************************************************)
MaxArchive == 2
RememberedIntentions == { <<>>, <<"peace">> }

\* POST /remember-intention.  active_intentions, which only recall_memory
\* reads, is not part of the state.
remember_intention(intention) ==
  /\ Len(soul_archive) < MaxArchive
  /\ IF intention # <<>>
     THEN /\ soul_archive' = track_intention_pattern(intention)
          /\ response' = Reply("remember_intention", 200, TRUE, NoId,
                               <<intention>>)
     ELSE /\ response' = Reply("remember_intention", 200, FALSE, NoId, <<>>)
          /\ UNCHANGED soul_archive
  /\ UNCHANGED <<active_sessions, threads, now, stop_ok, terminal_since>>

ArchiveNext ==
  \/ \E raw \in Intentions, d \in Durations, f \in Frequencies,
        m \in Multipliers : run_intention(raw, d, f, m)
  \/ \E raw \in ScalarIntentions, d \in Durations, f \in Frequencies :
        broadcast_scalar(raw, d, f)
  \/ \E location \in Locations : harmonize_space(location)
  \/ \E intention \in RememberedIntentions : remember_intention(intention)
  \/ \E i \in 1..Len(threads) : thread_init(i)
  \/ \E i \in 1..Len(threads) : thread_loop(i)
  \/ \E i \in 1..Len(threads) : thread_tick(i)
  \/ \E i \in 1..Len(threads) : thread_exit(i)
  \/ \E i \in 1..Len(threads) : timer_fire(i)
  \/ Tick

ArchiveSpec == Init /\ [][ArchiveNext]_vars

\* the handlers that call track_intention_pattern
TrackingOps == { "run_intention", "broadcast_scalar", "harmonize_space",
                 "remember_intention" }

\* C28: the soul archive is append-only and loses no entry: a step keeps
\* every entry it held, unchanged and in place, each accepted tracking
\* request adds exactly one entry, and nothing else adds or removes one (so
\* K accepted tracking requests, in any interleaving, add exactly K).
C28_ArchiveAppendOnly ==
  [][/\ Len(soul_archive') >= Len(soul_archive)
     /\ SubSeq(soul_archive', 1, Len(soul_archive)) = soul_archive
     /\ Len(soul_archive') - Len(soul_archive) =
          IF response'.op \in TrackingOps /\ response'.success THEN 1 ELSE 0
    ]_vars

\* the archive after tracking requests of two different handlers
C28_Witness ==
  /\ Len(soul_archive) >= 2
  /\ response.op = "remember_intention"
  /\ response.success
  /\ \E i \in 1..Len(soul_archive) :
       soul_archive[i].intention # soul_archive[Len(soul_archive)].intention

(***************************************************************************)
(* Healing-code lookup.  healing_codes is what load_healing_codes_from_txt *)
(* returns: entries in file order, each code a stripped run of digits and  *)
(* blanks that starts with a digit.  A code is a sequence of characters,   *)
(* a keyword a word.  process.extractOne is a library call: its result,    *)
(* the best keyword and its score, is any keyword with any score.          *)
(***************************************************************************)
CodeA == <<"1", "2", " ", "3", "4", " ", "5", "6", "7">>
CodeB == <<"8", "8", " ", "9", "9">>
CodeC == <<"7", "1", " ", "4", "2", " ", "8", "8", "1">>

healing_codes ==
  << [code |-> CodeA, meaning |-> "anxiety relief",
      keywords |-> <<"anxiety", "relief", "emotional">>],
     [code |-> CodeB, meaning |-> "grief",
      keywords |-> <<"grief", "emotional">>],
     [code |-> CodeA, meaning |-> "calm",
      keywords |-> <<"calm", "emotional">>],
     [code |-> CodeC, meaning |-> "stress relief",
      keywords |-> <<"stress", "relief">>] >>

Keywords(entry) == { entry.keywords[i] : i \in 1..Len(entry.keywords) }

\* all_keywords = list(set(keyword for entry in healing_codes ...))
all_keywords == UNION { Keywords(healing_codes[i]) : i \in 1..Len(healing_codes) }

Issues == { "", "anxiety", "ANXIETY", "grief", "emotional", "relief", "stres",
            "Greif" }
\* data.get("limit", None); None and 0 are both false in `if limit`
Limits == { 0, 1, 2, 0 - 1 }
FuzzyScores == { 0, 91, 92, 93, 100 }

\* str.lower()
lower(s) ==
  CASE s = "ANXIETY" -> "anxiety" [] s = "Greif" -> "greif" [] OTHER -> s

Digits == { "0", "1", "2", "3", "4", "5", "6", "7", "8", "9" }

\* re.match(r'^\d[\d\s]{6,}$', code)
numeric_pattern(code) ==
  /\ Len(code) >= 7
  /\ code[1] \in Digits
  /\ \A i \in 2..Len(code) : code[i] \in Digits \cup { " " }

\* a threshold two points lower
score_accepted_from_90(score) == score >= 90

\* if score >= 92
score_accepted(score) == score >= 92

\* the entries of healing_codes, in order, that have the keyword
RECURSIVE EntriesWith(_, _)
EntriesWith(keyword, i) ==
  IF i > Len(healing_codes) THEN <<>>
  ELSE IF keyword \in Keywords(healing_codes[i])
       THEN <<healing_codes[i]>> \o EntriesWith(keyword, i + 1)
       ELSE EntriesWith(keyword, i + 1)

\* unique_codes[entry["code"]] = entry for each entry in turn: a dict keeps
\* the position of a key's first insertion and the value of its last
RECURSIVE UniqueCodes(_, _)
UniqueCodes(entries, i) ==
  IF i > Len(entries) THEN <<>>
  ELSE IF \E j \in 1..(i - 1) : entries[j].code = entries[i].code
       THEN UniqueCodes(entries, i + 1)
       ELSE LET last == CHOOSE j \in i..Len(entries) :
                          /\ entries[j].code = entries[i].code
                          /\ \A k \in (j + 1)..Len(entries) :
                               entries[k].code # entries[i].code
            IN  <<entries[last]>> \o UniqueCodes(entries, i + 1)

\* matched_codes[:limit]
Slice(s, limit) ==
  IF limit >= 0 THEN SubSeq(s, 1, IF limit < Len(s) THEN limit ELSE Len(s))
  ELSE SubSeq(s, 1, Max(0, Len(s) + limit))

\* POST /get-healing-code; best_match and score are what extractOne returns
\* when it is called
get_healing_code(raw, limit, best_match, score) ==
  LET issue == lower(raw)
      exact == UniqueCodes(EntriesWith(issue, 1), 1)
      fuzzy == exact = <<>> /\ all_keywords # {}
      unique_codes ==
        IF exact # <<>> THEN exact
        ELSE IF fuzzy /\ score_accepted(score)
             THEN UniqueCodes(EntriesWith(best_match, 1), 1)
             ELSE <<>>
      matched_codes == SelectSeq(unique_codes,
                                 LAMBDA entry : numeric_pattern(entry.code))
      limited == IF limit # 0
                 THEN Slice(matched_codes, limit) ELSE matched_codes
      log == [issue |-> issue,
              best_match |-> IF fuzzy THEN best_match ELSE "",
              score |-> IF fuzzy THEN score ELSE NONE]
  IN /\ fuzzy \/ (best_match = "" /\ score = NONE)
     /\ response' =
          IF matched_codes # <<>>
          THEN Reply("get_healing_code", 200, TRUE, NoId,
                     <<log, [i \in 1..Len(limited) |->
                               [code |-> limited[i].code,
                                meaning |-> limited[i].meaning]]>>)
          ELSE Reply("get_healing_code", 200, FALSE, NoId, <<log, <<>>>>)
     /\ UNCHANGED <<active_sessions, soul_archive, threads, now, stop_ok,
                    terminal_since>>

LookupNext ==
  \E raw \in Issues, limit \in Limits,
     best_match \in all_keywords \cup { "" }, score \in FuzzyScores \cup { NONE } :
    get_healing_code(raw, limit, best_match, score)

LookupSpec == Init /\ [][LookupNext]_vars

\* the codes of the catalog entries that have the keyword
CodesWith(keyword) ==
  { healing_codes[i].code :
      i \in { j \in 1..Len(healing_codes) : keyword \in Keywords(healing_codes[j]) } }

\* C29: the lookup tries the exact keyword first and consults the fuzzy
\* matcher only when no entry has the issue as a keyword; a fuzzy match is
\* used only at a score of 92 or more; every code returned passes the
\* numeric-pattern check, and success is false exactly when no candidate
\* code passes it.
C29_LookupRule ==
  Called("get_healing_code") =>
    LET log == response.data[1]
        codes == response.data[2]
        returned == { codes[i].code : i \in 1..Len(codes) }
        has_exact == CodesWith(log.issue) # {}
        candidates ==
          IF has_exact THEN CodesWith(log.issue)
          ELSE IF log.score >= 92 THEN CodesWith(log.best_match)
          ELSE {}
    IN  /\ has_exact => log.score = NONE
        /\ returned \subseteq candidates
        /\ \A code \in returned :
             /\ Len(code) >= 7
             /\ \A i \in 1..Len(code) : code[i] \in Digits \cup { " " }
             /\ code[1] # " "
        /\ response.success = (\E code \in candidates : numeric_pattern(code))

\* a misspelt issue answered through a fuzzy match at the threshold
C29_Witness ==
  /\ Called("get_healing_code")
  /\ response.success
  /\ CodesWith(response.data[1].issue) = {}
  /\ response.data[1].score = 92
  /\ Len(response.data[2]) >= 1

\* C30: within one session the iteration counter stored in the record
\* strictly increases with every tick write: a tick's update stores a
\* counter greater than the one the record held, so the counter never
\* decreases or repeats.
C30_CounterStrictlyIncreases ==
  [][\A i \in 1..Len(threads) :
       (/\ threads[i].pc = "tick"
        /\ threads'[i].pc # "tick"
        /\ threads[i].kind # "past_life"
        /\ threads[i].session_id \in DOMAIN active_sessions)
       => active_sessions'[threads[i].session_id].count
            > active_sessions[threads[i].session_id].count]_vars

\* thread i's Timer callback runs in this step
Fires(i) == threads[i].timer = "pending" /\ threads'[i].timer = "fired"

\* C31: the deferred removal is idempotent: a Timer callback removes the
\* record of its id and nothing else and raises nothing; fired for an id
\* that is already absent it leaves the registry as it was, so two removals
\* of one id leave the registry that one leaves.
C31_RemoveIdempotent ==
  [][\A i \in 1..Len(threads) :
       Fires(i) =>
         /\ threads'[i].error = threads[i].error
         /\ DOMAIN active_sessions' =
              (DOMAIN active_sessions) \ { threads[i].session_id }
         /\ \A k \in DOMAIN active_sessions' :
              active_sessions'[k] = active_sessions[k]
         /\ threads[i].session_id \notin DOMAIN active_sessions
              => active_sessions' = active_sessions]_vars

\* two Timers of one id have fired: the second found the id absent
C31_Witness ==
  \E i, j \in 1..Len(threads) :
     /\ i # j
     /\ threads[i].session_id = threads[j].session_id
     /\ threads[i].timer = "fired" /\ threads[j].timer = "fired"
     /\ threads[i].error = "none" /\ threads[j].error = "none"
     /\ threads[i].session_id \notin DOMAIN active_sessions


\* C32: in every reachable state, every record that has both fields
\* satisfies 0 <= remaining <= duration, whatever the session kind
C32_RemainingWithinDuration ==
  \A k \in DOMAIN active_sessions :
     LET r == active_sessions[k]
     IN (r.remaining # NONE /\ r.duration # NONE) =>
          (0 <= r.remaining /\ r.remaining <= r.duration)


\* thread i applies its tick's update to the registry in this step
Ticks(i) ==
  /\ threads[i].pc = "tick" /\ threads'[i] # threads[i]
  /\ threads[i].session_id \in DOMAIN active_sessions

\* C33: a tick's progress update never writes the status field: a step that
\* changes the status of a record is a session creation (to running), a
\* stop request for that id (to stopped) or the loop exit of a worker of
\* that id (to completed), and a step that applies a tick's update leaves
\* every status as it was, so a record that reads stopped still does.
C33_TickNeverWritesStatus ==
  [][/\ \A k \in Kept :
          active_sessions'[k].status # Status(k) =>
            \/ Registers /\ active_sessions'[k].status = "running"
            \/ /\ response'.op = "stop_intention" /\ response'.session_id = k
               /\ active_sessions'[k].status = "stopped"
            \/ /\ \E i \in 1..Len(threads) :
                    /\ threads[i].session_id = k
                    /\ threads[i].pc = "exit" /\ threads'[i].pc = "done"
               /\ active_sessions'[k].status = "completed"
     /\ \A i \in 1..Len(threads) :
          Ticks(i) =>
            /\ DOMAIN active_sessions' = DOMAIN active_sessions
            /\ \A k \in Kept : active_sessions'[k].status = Status(k)
            /\ SeesStopped(i) =>
                 /\ active_sessions'[threads[i].session_id].status = "stopped"
                 /\ active_sessions'[threads[i].session_id].remaining
                      = Remaining(threads[i])]_vars

\* a worker is past its status check with its tick's update still to write,
\* and a stop request has since set the record it writes to to stopped
C33_Witness ==
  \E i \in 1..Len(threads) :
     /\ threads[i].pc = "tick"
     /\ SeesStopped(i)
     /\ threads[i].session_id \in DOMAIN stop_ok


\* the duration thread i's while loop compares the elapsed time with
EffectiveDuration(i) ==
  IF threads[i].pc = "init" THEN LoopDuration(threads[i])
  ELSE threads[i].duration

\* C34: the field-strength division is never by zero: a session whose
\* effective duration is zero or negative executes no tick at all and goes
\* directly from its initial record to completed: every step of its worker
\* is the start of the worker, the loop condition failing, the write of
\* completed after the loop, or the deferred removal; it never reaches the
\* tick's update, never sleeps and never ends on an exception.
C34_ZeroDurationGoesToCompleted ==
  [][\A i \in 1..Len(threads) :
       (EffectiveDuration(i) <= 0 /\ threads'[i] # threads[i]) =>
         /\ threads'[i].count = 0
         /\ \/ threads[i].pc = "init" /\ threads'[i].pc = "loop"
            \/ threads[i].pc = "loop" /\ threads'[i].pc = "exit"
            \/ /\ threads[i].pc = "exit" /\ threads'[i].pc = "done"
               /\ threads[i].session_id \in DOMAIN active_sessions'
               /\ active_sessions'[threads[i].session_id].status = "completed"
            \/ Fires(i)]_vars


\* the start handlers that validate the intention
ValidatingOps == {"run_intention", "broadcast_scalar"}

\* C35: a start request rejected for an empty or whitespace-only intention
\* has no side effect: the registry and the soul archive are unchanged and
\* no worker thread is spawned; and no request whose intention is empty once
\* stripped is accepted.
C35_RejectedStartHasNoEffect ==
  [][/\ (response'.op \in ValidatingOps /\ response'.code = 400) =>
          /\ active_sessions' = active_sessions
          /\ soul_archive' = soul_archive
          /\ threads' = threads
     /\ (response'.op = "run_intention" /\ response'.code # 400) =>
          \A raw \in Intentions, d \in Durations, f \in Frequencies,
            m \in Multipliers :
             run_intention(raw, d, f, m) => strip(raw) # <<>>
     /\ (response'.op = "broadcast_scalar" /\ response'.code # 400) =>
          \A raw \in ScalarIntentions, d \in Durations, f \in Frequencies :
             broadcast_scalar(raw, d, f) => strip(raw) # <<>>]_vars

\* a start request has just been rejected while sessions are registered,
\* the archive holds entries and workers exist
C35_Witness ==
  /\ response.op \in ValidatingOps /\ response.code = 400
  /\ active_sessions # EmptyMap
  /\ soul_archive # <<>>
  /\ threads # <<>>

====
